---------------------------- MODULE Spec2Model ----------------------------
(***************************************************************************)
(* PhoenixVisualizer source-migration scripts:                             *)
(*   effect : PhoenixVisualizer.Core/Effects/Nodes/AvsEffects/fix.py       *)
(*   canvas : fix_all_node_canvas_conversions.py                           *)
(*   simple : fix_simple.py                                                *)
(*   braces : fix_braces.py                                                *)
(*                                                                         *)
(* File content is a sequence of tokens.  A token is a piece of the text:  *)
(* each of ( ) { } is a token of its own, a blank is the token " ",        *)
(* a line break the token "\n", and other text is cut into tokens at the   *)
(* places where a literal of the scripts begins or ends ('canvas' is the   *)
(* tokens "c", "anvas" because 'Canvas = c' is a pattern of its own).      *)
(* Every literal and every regular expression of the scripts is written    *)
(* over these tokens, so that concatenating the tokens of a definition     *)
(* gives the text of the source.  The only whitespace tokens are those of  *)
(* WsTokens; no other token starts or ends with whitespace, and only the   *)
(* one-character tokens hold one of ( ) { }.                               *)
(***************************************************************************)
EXTENDS Naturals, Sequences, FiniteSets

VARIABLES
    script,            \* which script runs
    exists,            \* the paths that are files on disk (os.path.exists)
    disk,              \* path -> content of the file
    hasBackup,         \* the paths p for which p + ".backup" exists
    backupOf,          \* path -> content of p + ".backup"
    files,             \* main: the list iterated (test_files / node_files)
    idx,               \* main: position in files
    pc,                \* control position
    content,           \* the fixer's local variable content
    original_content,  \* what the fixer read (fix.py line 19)
    changes_made,      \* fix.py changes_made / canvas fixed
    issues,            \* verify_file_structure: the issues list
    ret,               \* what the last call of the fixer returned
    runs,              \* how often the transform / main has run
    wlog               \* history: one record per write to a source file

vars == <<script, exists, disk, hasBackup, backupOf, files, idx, pc, content,
          original_content, changes_made, issues, ret, runs, wlog>>

-----------------------------------------------------------------------------
(* Tokens *)

SP == " "
NL == "\n"
IND8 == "        "
IND12 == "            "
IND16 == "                "

\* str.rstrip(), str.strip() and the regular expressions' \s
WsTokens == {SP, NL, IND8, IND12, IND16}

IsWs(t) == t \in WsTokens

-----------------------------------------------------------------------------
(* Strings *)

Cat(ss) ==
    LET F[k \in 0..Len(ss)] == IF k = 0 THEN <<>> ELSE F[k - 1] \o ss[k]
    IN  F[Len(ss)]

MinOf(S) == CHOOSE k \in S : \A m \in S : k <= m

\* lit occurs in s at position i
LitAt(s, i, lit) ==
    /\ i >= 1
    /\ i + Len(lit) - 1 <= Len(s)
    /\ \A k \in 1..Len(lit) : s[i + k - 1] = lit[k]

\* Python: lit in s
Contains(s, lit) == \E i \in 1..Len(s) : LitAt(s, i, lit)

\* the first position >= i of token t in s, 0 when there is none
FirstIdx(s, i, t) ==
    LET S == {k \in i..Len(s) : s[k] = t}
    IN  IF S = {} THEN 0 ELSE MinOf(S)

\* the first position >= i that holds no whitespace, Len(s) + 1 when none
SkipWs(s, i) ==
    LET S == {k \in i..Len(s) : ~IsWs(s[k])}
    IN  IF S = {} THEN Len(s) + 1 ELSE MinOf(S)

\* Python: s.rstrip()
RStrip(s) ==
    LET S == {k \in 1..Len(s) : ~IsWs(s[k])}
    IN  IF S = {} THEN <<>> ELSE SubSeq(s, 1, CHOOSE k \in S : \A m \in S : m <= k)

\* Python: s.strip()
Strip(s) ==
    LET r == RStrip(s)
    IN  IF r = <<>> THEN <<>> ELSE SubSeq(r, SkipWs(r, 1), Len(r))

\* Python: s.endswith(lit) for a one-token lit
EndsWith(s, t) == Len(s) >= 1 /\ s[Len(s)] = t

\* the first position >= i at which lit occurs in s, 0 when there is none
NextLit(s, lit, i) ==
    LET S == {k \in i..Len(s) : LitAt(s, k, lit)}
    IN  IF S = {} THEN 0 ELSE MinOf(S)

\* Python: s.count(lit), occurrences counted left to right without overlap
RECURSIVE CountFrom(_, _, _)
CountFrom(s, lit, i) ==
    LET m == NextLit(s, lit, i)
    IN  IF m = 0 THEN 0 ELSE 1 + CountFrom(s, lit, m + Len(lit))

Count(s, lit) == CountFrom(s, lit, 1)

\* Python: s.replace(lit, rep): every occurrence, left to right, no overlap
RECURSIVE ReplaceFrom(_, _, _, _)
ReplaceFrom(s, lit, rep, i) ==
    LET m == NextLit(s, lit, i)
    IN  IF m = 0 THEN SubSeq(s, i, Len(s))
        ELSE SubSeq(s, i, m - 1) \o rep \o ReplaceFrom(s, lit, rep, m + Len(lit))

Replace(s, lit, rep) == ReplaceFrom(s, lit, rep, 1)

-----------------------------------------------------------------------------
(* fix.py: the patterns of fix_effect_file_improved *)

PF_SIG == "public override void ProcessFrame"
GC_SIG == "public override Dictionary<string, object> GetConfiguration"
AC_SIG == "public override void ApplyConfiguration"
AC_ARG == "Dictionary<string, object> config"
REGION == "#region"
ENDREGION == "#endregion"
CONFIGURATION == "Configuration"

\* '#region Configuration'
RegionConfiguration == <<REGION, SP, CONFIGURATION>>

\* the replacement text of step 1 (lines 27-47), line by line
ProcessCoreText ==
    Cat(<<
      <<IND8, "protected override object ProcessCore", "(",
        "Dictionary<string, object> inputs, AudioFeatures audioFeatures", ")", NL>>,
      <<IND8, "{", NL>>,
      <<IND12, "if", SP, "(", "!inputs.TryGetValue", "(", "\"Image\", out var input", ")",
        SP, "|| input is not ImageBuffer imageBuffer", ")", NL>>,
      <<IND16, "return GetDefaultOutput", "(", ")", ";", NL>>,
      <<NL>>,
      <<IND12, "var output = new ImageBuffer", "(",
        "imageBuffer.Width, imageBuffer.Height", ")", ";", NL>>,
      <<IND12, NL>>,
      <<IND12, "// TODO: Implement actual effect logic here", NL>>,
      <<IND12, "// For now, just copy input to output", NL>>,
      <<IND12, "for", SP, "(", "int i = 0; i < output.Pixels.Length; i++", ")", NL>>,
      <<IND12, "{", NL>>,
      <<IND16, "output.Pixels[i] = imageBuffer.Pixels[i];", NL>>,
      <<IND12, "}", NL>>,
      <<IND12, NL>>,
      <<IND12, "return output;", NL>>,
      <<IND8, "}", NL>>,
      <<NL>>,
      <<IND8, "public override object GetDefaultOutput", "(", ")", NL>>,
      <<IND8, "{", NL>>,
      <<IND12, "return new ImageBuffer", "(", "800, 600", ")", ";", NL>>,
      <<IND8, "}">>
    >>)

\* \s*\{[^}]*\} from position j: the position of the closing brace, 0 for no
\* match.  [^}]* cannot pass a closing brace, so the body ends at the first one.
BodyEnd(s, j) ==
    LET b == SkipWs(s, j)
    IN  IF b <= Len(s) /\ s[b] = "{" THEN FirstIdx(s, b + 1, "}") ELSE 0

\* the number of line breaks in s[a..b]
Newlines(s, a, b) == Cardinality({k \in a..b : s[k] = NL})

\* The position of the last token of the pattern's match that starts at i, 0
\* when the pattern does not match at i.
MatchEnd(pat, s, i) ==
    CASE pat = "process_frame" ->
           \* public override void ProcessFrame\([^)]*\)\s*\{[^}]*\}
           IF LitAt(s, i, <<PF_SIG, "(">>)
           THEN LET c == FirstIdx(s, i + 2, ")")
                IN  IF c = 0 THEN 0 ELSE BodyEnd(s, c + 1)
           ELSE 0
      [] pat = "get_config" ->
           \* public override Dictionary<string, object> GetConfiguration\(\)\s*\{[^}]*\}
           IF LitAt(s, i, <<GC_SIG, "(", ")">>) THEN BodyEnd(s, i + 3) ELSE 0
      [] pat = "apply_config" ->
           \* public override void ApplyConfiguration\(Dictionary<string, object> config\)\s*\{[^}]*\}
           IF LitAt(s, i, <<AC_SIG, "(", AC_ARG, ")">>) THEN BodyEnd(s, i + 4) ELSE 0
      [] pat = "incomplete_region" ->
           \* #region Configuration\s*\n\s*\n\s*\n\s*#endregion: whitespace with at
           \* least three line breaks, then #endregion
           IF LitAt(s, i, RegionConfiguration)
           THEN LET e == SkipWs(s, i + 3)
                IN  IF e <= Len(s) /\ s[e] = ENDREGION /\ Newlines(s, i + 3, e - 1) >= 3
                    THEN e ELSE 0
           ELSE 0
      [] pat = "trailing_region" ->
           \* #region Configuration\s*\n\s*\n\s*\n\s*$: whitespace with at least
           \* three line breaks up to the end of the text
           IF LitAt(s, i, RegionConfiguration)
           THEN IF SkipWs(s, i + 3) = Len(s) + 1 /\ Newlines(s, i + 3, Len(s)) >= 3
                THEN Len(s) ELSE 0
           ELSE 0

\* the first position >= i at which the pattern matches, 0 when there is none
NextMatch(pat, s, i) ==
    LET S == {k \in i..Len(s) : MatchEnd(pat, s, k) # 0}
    IN  IF S = {} THEN 0 ELSE MinOf(S)

\* re.search(pattern, content)
Search(pat, s) == NextMatch(pat, s, 1) # 0

\* re.sub(pattern, rep, content): every match, left to right, no overlap
RECURSIVE SubFrom(_, _, _, _)
SubFrom(pat, rep, s, i) ==
    LET m == NextMatch(pat, s, i)
    IN  IF m = 0 THEN SubSeq(s, i, Len(s))
        ELSE SubSeq(s, i, m - 1) \o rep \o SubFrom(pat, rep, s, MatchEnd(pat, s, m) + 1)

ReSub(pat, rep, s) == SubFrom(pat, rep, s, 1)

\* one step of fix_effect_file_improved: if re.search(...): content = re.sub(...)
ApplyRule(pat, rep, s) == IF Search(pat, s) THEN ReSub(pat, rep, s) ELSE s

\* content after steps 1 to 3 (the block rules)
AfterBlockRules(s) ==
    ApplyRule("apply_config", <<>>,
        ApplyRule("get_config", <<>>,
            ApplyRule("process_frame", ProcessCoreText, s)))

\* content after steps 1 to 4
AfterRegionRule(s) == ApplyRule("incomplete_region", <<>>, AfterBlockRules(s))

\* content after steps 1 to 4 and the trailing-region rule
AfterRules(s) == ApplyRule("trailing_region", <<>>, AfterRegionRule(s))

\* step 5: content.rstrip() + '\n'
Normalize(s) == RStrip(s) \o <<NL>>

\* the content fix_effect_file_improved compares with original_content
EffectContent(s) == Normalize(AfterRules(s))

\* changes_made at line 84
EffectChangesMade(s) ==
    LET s1 == ApplyRule("process_frame", ProcessCoreText, s)
        s2 == ApplyRule("get_config", <<>>, s1)
        s3 == ApplyRule("apply_config", <<>>, s2)
        s4 == ApplyRule("incomplete_region", <<>>, s3)
    IN  \/ Search("process_frame", s)
        \/ Search("get_config", s1)
        \/ Search("apply_config", s2)
        \/ Search("incomplete_region", s3)
        \/ Search("trailing_region", s4)

-----------------------------------------------------------------------------
(* fix.py: verify_file_structure *)

UNMATCHED == "Unmatched regions"
INCOMPLETE == "Found incomplete Configuration region"
NO_BRACE == "File doesn't end with proper closing brace"

\* '#region Configuration\n\n\n\n#endregion'
IncompleteLiteral == RegionConfiguration \o <<NL, NL, NL, NL, ENDREGION>>

UnmatchedRegions(s) == Count(s, <<REGION>>) # Count(s, <<ENDREGION>>)

HasIncompleteRegion(s) == Contains(s, IncompleteLiteral)

\* a variant that forgets content.strip()
ProperEndingUnstripped(s) == EndsWith(s, "}")

ProperEnding(s) == EndsWith(Strip(s), "}")

\* the issues list, in the order of the appends
VerifyIssues(s) ==
    (IF UnmatchedRegions(s) THEN <<UNMATCHED>> ELSE <<>>)
    \o (IF HasIncompleteRegion(s) THEN <<INCOMPLETE>> ELSE <<>>)
    \o (IF ~ProperEnding(s) THEN <<NO_BRACE>> ELSE <<>>)

-----------------------------------------------------------------------------
(* fix_all_node_canvas_conversions.py: fix_node_file *)

\* 'SkiaCanvasAdapter'
SkiaCanvasAdapter == <<"Skia", "Canvas", "Adapter">>

\* 'Canvas = canvas', 'Canvas = c', 'Canvas=canvas'
CanvasEqCanvas == <<"Canvas", SP, "=", SP, "c", "anvas">>
CanvasEqC == <<"Canvas", SP, "=", SP, "c">>
CanvasEqCanvasTight == <<"Canvas", "=", "c", "anvas">>

\* the list patterns (lines 22-26): <<pattern, replacement>>
patterns ==
    << <<CanvasEqCanvas,
         <<"Canvas", SP, "=", SP, "new", SP>> \o SkiaCanvasAdapter \o <<"(", "c", "anvas", ")">> >>,
       <<CanvasEqC,
         <<"Canvas", SP, "=", SP, "new", SP>> \o SkiaCanvasAdapter \o <<"(", "c", ")">> >>,
       <<CanvasEqCanvasTight,
         <<"Canvas", "=", "new", SP>> \o SkiaCanvasAdapter \o <<"(", "c", "anvas", ")">> >> >>

\* a variant that replaces the first occurrence only (re.sub with count=1)
CanvasSubFirst(pattern, replacement, s) ==
    LET m == NextLit(s, pattern, 1)
    IN  IF m = 0 THEN s
        ELSE SubSeq(s, 1, m - 1) \o replacement \o SubSeq(s, m + Len(pattern), Len(s))

\* re.sub(pattern, replacement, content) of line 32: the patterns are literal
\* text, every occurrence is replaced
CanvasSub(pattern, replacement, s) == Replace(s, pattern, replacement)

\* the index of the first pattern of the list that re.search finds, 0 if none
FirstPattern(s) ==
    LET S == {k \in 1..Len(patterns) : Contains(s, patterns[k][1])}
    IN  IF S = {} THEN 0 ELSE MinOf(S)

\* fixed at line 36
CanvasFixed(s) == ~Contains(s, SkiaCanvasAdapter) /\ FirstPattern(s) # 0

\* content at line 36: the early return leaves it as read, the loop stops at
\* the first pattern found (break)
CanvasContent(s) ==
    IF CanvasFixed(s)
    THEN CanvasSub(patterns[FirstPattern(s)][1], patterns[FirstPattern(s)][2], s)
    ELSE s

-----------------------------------------------------------------------------
(* fix_simple.py and fix_braces.py: fix_node_file *)

\* '.Render(f.Spectrum, ..., Volume = f.Volume, Canvas = '
RenderPrefix ==
    <<".Render", "(", "f.Spectrum, f.Spectrum, new RenderContext", SP, "{", SP,
      "Width = _width, Height = _height, Waveform = f.Spectrum, Spectrum = f.Spectrum, Time = f.Time, Beat = f.Beat, Volume = f.Volume,",
      SP, "Canvas", SP, "=", SP>>

\* 'Canvas = c })' and 'Canvas = c });'
CanvasCClosed == <<"Canvas", SP, "=", SP, "c", SP, "}", ")">>
CanvasCClosedSemi == CanvasCClosed \o <<";">>

\* 'Canvas =  canvas);' and 'Canvas = canvas });'
CanvasCanvasOpen == <<"Canvas", SP, "=", SP, SP, "c", "anvas", ")", ";">>
CanvasCanvasClosed == <<"Canvas", SP, "=", SP, "c", "anvas", SP, "}", ")", ";">>

\* the str.replace calls of fix_simple.py lines 18-26: <<old, new>>
SimpleRules ==
    << << <<"EffectRegistry.Create", "(">>, <<"EffectRegistry.Create", "ByName", "(">> >>,
       << <<".Process", "(", "f", ",">>, RenderPrefix >>,
       << <<".Process", "(", "f", ",", SP, "c", ")">>, RenderPrefix \o <<"c", SP, "}", ")">> >>,
       << CanvasCanvasOpen, CanvasCanvasClosed >>,
       << CanvasCClosed, CanvasCClosedSemi >> >>

\* the str.replace calls of fix_braces.py lines 18-19: <<old, new>>
BracesRules ==
    << << <<"Canvas", SP, "=", SP, "c", ")", ";">>, CanvasCClosedSemi >>,
       << CanvasCanvasOpen, CanvasCanvasClosed >> >>

\* content after the first k calls of rules, applied in order
RECURSIVE ReplaceSeq(_, _, _)
ReplaceSeq(rules, k, s) ==
    IF k = 0 THEN s
    ELSE Replace(ReplaceSeq(rules, k - 1, s), rules[k][1], rules[k][2])

\* whether one of the calls found its text
AnyReplaced(rules, s) ==
    \E k \in 1..Len(rules) : Contains(ReplaceSeq(rules, k - 1, s), rules[k][1])

SimpleContent(s) == ReplaceSeq(SimpleRules, Len(SimpleRules), s)

BracesContent(s) == ReplaceSeq(BracesRules, Len(BracesRules), s)

-----------------------------------------------------------------------------
(* The four fixers as text-to-text functions *)

Scripts == {"effect", "canvas", "simple", "braces"}

\* the content the fixer holds when it decides whether to write
Transform(sc, s) ==
    CASE sc = "effect" -> EffectContent(s)
      [] sc = "canvas" -> CanvasContent(s)
      [] sc = "simple" -> SimpleContent(s)
      [] sc = "braces" -> BracesContent(s)

\* whether a rewrite rule matched: changes_made (fix.py), fixed (canvas); the
\* two str.replace scripts keep no such flag
RuleFired(sc, s) ==
    CASE sc = "effect" -> EffectChangesMade(s)
      [] sc = "canvas" -> CanvasFixed(s)
      [] sc = "simple" -> AnyReplaced(SimpleRules, s)
      [] sc = "braces" -> AnyReplaced(BracesRules, s)

\* whether the fixer goes on to write the file
WillWrite(sc, s) ==
    CASE sc = "effect" -> EffectContent(s) # s      \* line 85
      [] sc = "canvas" -> CanvasFixed(s)            \* line 36
      [] sc = "simple" -> TRUE                      \* line 28
      [] sc = "braces" -> TRUE                      \* line 21

-----------------------------------------------------------------------------
(* Input texts *)

MaxParts == 2

\* pieces of C# source the effect fixer meets
EffectParts ==
    << \* public override void ProcessFrame(int x) { doThing(); }
       <<PF_SIG, "(", "int x", ")", SP, "{", SP, "doThing", "(", ")", ";", SP, "}">>,
       \* a ProcessFrame whose body holds a nested block
       <<PF_SIG, "(", ")", NL, "{", SP, "for", SP, "{", SP, "a", SP, "}", SP, "b", SP, "}">>,
       \* a GetConfiguration whose body is 'Canvas = canvas'
       <<GC_SIG, "(", ")", SP, "{", SP>> \o CanvasEqCanvas \o <<SP, "}">>,
       \* a GetConfiguration with a nested block before 'Canvas = canvas'
       <<GC_SIG, "(", ")", SP, "{", SP, "if", SP, "{", SP, "a", SP, "}", SP>>
           \o CanvasEqCanvas \o <<SP, "}">>,
       \* an ApplyConfiguration
       <<AC_SIG, "(", AC_ARG, ")", NL, "{", SP, "x", SP, "}">>,
       RegionConfiguration \o <<NL, NL>>,
       <<NL, ENDREGION>>,
       <<NL, NL, ENDREGION>>,
       <<NL>>,
       <<"}">> >>

CanvasParts ==
    << CanvasEqCanvas, CanvasEqC, CanvasEqCanvasTight, patterns[1][2],
       <<"tx">>, <<"anvas">>, <<";", NL>> >>

NodeParts ==
    << <<"EffectRegistry.Create", "(">>,
       <<".Process", "(", "f", ",">>,
       <<SP, "c", ")">>,
       <<SP, "c", "anvas", ")", ";">>,
       CanvasCClosed,
       CanvasCanvasOpen,
       <<"Canvas", SP, "=", SP, "c", ")", ";">>,
       <<";">> >>

PartsOf(sc) ==
    CASE sc = "effect" -> EffectParts
      [] sc = "canvas" -> CanvasParts
      [] sc = "simple" -> NodeParts
      [] sc = "braces" -> NodeParts

\* every text made of at most n of the pieces
RECURSIVE TextsOf(_, _)
TextsOf(parts, n) ==
    IF n = 0 THEN {<<>>}
    ELSE LET shorter == TextsOf(parts, n - 1)
         IN  shorter \cup {t \o parts[k] : t \in shorter, k \in 1..Len(parts)}

Inputs(sc) == TextsOf(PartsOf(sc), MaxParts)

-----------------------------------------------------------------------------
(* The files of a batch run *)

NumPaths == 2
MaxRuns == 2

Paths == 1..NumPaths

\* files the first path may hold
FilesOf(sc) ==
    CASE sc = "effect" ->
           { <<"}">>,
             <<"}", NL>>,
             <<"}", SP, NL, NL>>,
             EffectParts[1],
             EffectParts[3] \o <<NL>>,
             EffectParts[2] \o <<NL, "}", NL>>,
             RegionConfiguration \o <<NL, NL, NL>>,
             Cat(<<EffectParts[6], EffectParts[6], EffectParts[7], EffectParts[7],
                   <<NL, "}", NL>> >>) }
      [] sc = "canvas" ->
           { CanvasEqCanvas \o <<";", NL>>,
             CanvasEqCanvas \o <<";", NL>> \o CanvasEqCanvasTight,
             patterns[1][2],
             <<"tx">> }
      [] sc = "simple" ->
           { CanvasCClosed, <<";">>, NodeParts[2] \o NodeParts[4], NodeParts[7] }
      [] sc = "braces" ->
           { CanvasCClosed, <<";">>, NodeParts[2] \o NodeParts[4], NodeParts[7] }

\* the file the other paths hold: one that its fixer rewrites
OtherFileOf(sc) ==
    CASE sc = "effect" -> EffectParts[5] \o <<NL, "}", NL>>
      [] sc = "canvas" -> CanvasEqC \o <<")", ";">>
      [] sc = "simple" -> NodeParts[1] \o <<";">>
      [] sc = "braces" -> NodeParts[7]

-----------------------------------------------------------------------------
(* main and the fixers, step by step *)

\* fix_simple.py and fix_braces.py list the files with glob and wrap each call
\* in try/except; fix.py and the canvas script test os.path.exists and do not
GlobScripts == {"simple", "braces"}

Cur == files[idx]

\* what one write to a source file did
WriteRecord(p, post) ==
    [path |-> p, pre |-> disk[p], post |-> post,
     backed |-> (p \in hasBackup /\ backupOf[p] = disk[p]),
     fired |-> changes_made, whole |-> (post = content), run |-> runs]

\* an exception raised inside the fixer: caught by the except clause of the glob
\* scripts' loop, which goes on with the next file; it leaves main otherwise
Raised ==
    /\ ret' = "raised"
    /\ IF script \in GlobScripts
       THEN pc' = "loop" /\ idx' = idx + 1
       ELSE pc' = "raised" /\ idx' = idx

Init ==
    /\ script \in Scripts
    /\ exists \in SUBSET Paths
    /\ \E f \in FilesOf(script) :
         disk = [p \in Paths |-> IF p \notin exists THEN <<>>
                                 ELSE IF p = 1 THEN f ELSE OtherFileOf(script)]
    /\ hasBackup = {}
    /\ backupOf = [p \in Paths |-> <<>>]
    /\ files = <<>>
    /\ idx = 0
    /\ pc = "start"
    /\ content = <<>>
    /\ original_content = <<>>
    /\ changes_made = FALSE
    /\ issues = <<>>
    /\ ret = "none"
    /\ runs = 0
    /\ wlog = <<>>

\* main is started (again): the list of files is built
Start ==
    /\ pc \in {"start", "done", "raised"}
    /\ runs < MaxRuns
    /\ files' = IF script \in GlobScripts
                THEN SelectSeq([k \in 1..NumPaths |-> k], LAMBDA p : p \in exists)
                ELSE [k \in 1..NumPaths |-> k]
    /\ idx' = 1
    /\ pc' = "loop"
    /\ runs' = runs + 1
    /\ UNCHANGED <<script, exists, disk, hasBackup, backupOf, content,
                   original_content, changes_made, issues, ret, wlog>>

\* the for loop is over
MainDone ==
    /\ pc = "loop"
    /\ idx > Len(files)
    /\ pc' = "done"
    /\ UNCHANGED <<script, exists, disk, hasBackup, backupOf, files, idx, content,
                   original_content, changes_made, issues, ret, runs, wlog>>

\* os.path.exists(file) is false: "File not found", next file
MainMissing ==
    /\ pc = "loop"
    /\ idx <= Len(files)
    /\ script \notin GlobScripts
    /\ Cur \notin exists
    /\ idx' = idx + 1
    /\ UNCHANGED <<script, exists, disk, hasBackup, backupOf, files, pc, content,
                   original_content, changes_made, issues, ret, runs, wlog>>

\* the fixer is called for the file
MainCall ==
    /\ pc = "loop"
    /\ idx <= Len(files)
    /\ script \in GlobScripts \/ Cur \in exists
    /\ pc' = "fix"
    /\ UNCHANGED <<script, exists, disk, hasBackup, backupOf, files, idx, content,
                   original_content, changes_made, issues, ret, runs, wlog>>

\* the fixer reads the file, applies its rules and decides whether to write
FixRead ==
    /\ pc = "fix"
    /\ original_content' = disk[Cur]
    /\ content' = Transform(script, disk[Cur])
    /\ changes_made' = RuleFired(script, disk[Cur])
    /\ IF WillWrite(script, disk[Cur])
       THEN pc' = (IF script = "effect" THEN "backup" ELSE "write") /\ ret' = ret
       ELSE pc' = "returned" /\ ret' = (IF script = "effect" THEN "False" ELSE "None")
    /\ UNCHANGED <<script, exists, disk, hasBackup, backupOf, files, idx, issues,
                   runs, wlog>>

\* open() or read() raises
ReadFails ==
    /\ pc = "fix"
    /\ Raised
    /\ UNCHANGED <<script, exists, disk, hasBackup, backupOf, files, content,
                   original_content, changes_made, issues, runs, wlog>>

\* fix.py line 88: shutil.copy2(file_path, file_path + ".backup")
Backup ==
    /\ pc = "backup"
    /\ hasBackup' = hasBackup \cup {Cur}
    /\ backupOf' = [backupOf EXCEPT ![Cur] = disk[Cur]]
    /\ pc' = "write"
    /\ UNCHANGED <<script, exists, disk, files, idx, content, original_content,
                   changes_made, issues, ret, runs, wlog>>

\* shutil.copy2 raises
BackupFails ==
    /\ pc = "backup"
    /\ Raised
    /\ UNCHANGED <<script, exists, disk, hasBackup, backupOf, files, content,
                   original_content, changes_made, issues, runs, wlog>>

\* the file is opened for writing and content is written
Write ==
    /\ pc = "write"
    /\ disk' = [disk EXCEPT ![Cur] = content]
    /\ wlog' = Append(wlog, WriteRecord(Cur, content))
    /\ IF script = "effect"
       THEN pc' = "verify" /\ ret' = ret
       ELSE pc' = "returned" /\ ret' = "None"
    /\ UNCHANGED <<script, exists, hasBackup, backupOf, files, idx, content,
                   original_content, changes_made, issues, runs>>

\* open(file, 'w') raises and the file is as before, or f.write raises after
\* open has truncated the file
WriteFails ==
    /\ pc = "write"
    /\ \E truncated \in BOOLEAN :
         IF truncated
         THEN /\ disk' = [disk EXCEPT ![Cur] = <<>>]
              /\ wlog' = Append(wlog, WriteRecord(Cur, <<>>))
         ELSE UNCHANGED <<disk, wlog>>
    /\ Raised
    /\ UNCHANGED <<script, exists, hasBackup, backupOf, files, content,
                   original_content, changes_made, issues, runs>>

\* a variant in which issues block the fix: the original text is put back and
\* the fixer returns False
VerifyBlocking ==
    /\ pc = "verify"
    /\ issues' = VerifyIssues(disk[Cur])
    /\ ret' = (IF issues' = <<>> THEN "True" ELSE "False")
    /\ disk' = (IF issues' = <<>> THEN disk ELSE [disk EXCEPT ![Cur] = original_content])
    /\ pc' = "verified"
    /\ UNCHANGED <<script, exists, hasBackup, backupOf, files, idx, content,
                   original_content, changes_made, runs, wlog>>

\* fix.py lines 97-99: verify_file_structure reads the file back and prints the
\* issues it finds; fix_effect_file_improved returns True
Verify ==
    /\ pc = "verify"
    /\ issues' = VerifyIssues(disk[Cur])
    /\ ret' = "True"
    /\ pc' = "verified"
    /\ UNCHANGED <<script, exists, disk, hasBackup, backupOf, files, idx, content,
                   original_content, changes_made, runs, wlog>>

\* verify_file_structure cannot read the file back
VerifyReadFails ==
    /\ pc = "verify"
    /\ Raised
    /\ UNCHANGED <<script, exists, disk, hasBackup, backupOf, files, content,
                   original_content, changes_made, issues, runs, wlog>>

\* back in main: the outcome is printed, next file
Return ==
    /\ pc \in {"returned", "verified"}
    /\ idx' = idx + 1
    /\ pc' = "loop"
    /\ UNCHANGED <<script, exists, disk, hasBackup, backupOf, files, content,
                   original_content, changes_made, issues, ret, runs, wlog>>

Next ==
    \/ Start
    \/ MainDone
    \/ MainMissing
    \/ MainCall
    \/ FixRead
    \/ ReadFails
    \/ Backup
    \/ BackupFails
    \/ Write
    \/ WriteFails
    \/ Verify
    \/ VerifyReadFails
    \/ Return

Spec == Init /\ [][Next]_vars

-----------------------------------------------------------------------------
(* The fixers as functions of the text: one text, the fixer applied to it     *)
(* again and again, the verifier applied to what it holds                     *)

InitT ==
    /\ script \in Scripts
    /\ content \in Inputs(script)
    /\ exists = {}
    /\ disk = [p \in Paths |-> <<>>]
    /\ hasBackup = {}
    /\ backupOf = [p \in Paths |-> <<>>]
    /\ files = <<>>
    /\ idx = 0
    /\ pc = "text"
    /\ original_content = <<>>
    /\ changes_made = FALSE
    /\ issues = <<>>
    /\ ret = "none"
    /\ runs = 0
    /\ wlog = <<>>

\* the fixer's rules run on the text
Apply ==
    /\ pc \in {"text", "checked"}
    /\ runs < MaxRuns
    /\ original_content' = content
    /\ content' = Transform(script, content)
    /\ changes_made' = RuleFired(script, content)
    /\ runs' = runs + 1
    /\ pc' = "text"
    /\ issues' = <<>>
    /\ UNCHANGED <<script, exists, disk, hasBackup, backupOf, files, idx, ret, wlog>>

\* verify_file_structure runs on the text
Check ==
    /\ pc = "text"
    /\ script = "effect"
    /\ issues' = VerifyIssues(content)
    /\ pc' = "checked"
    /\ UNCHANGED <<script, exists, disk, hasBackup, backupOf, files, idx, content,
                   original_content, changes_made, ret, runs, wlog>>

NextT == Apply \/ Check

SpecT == InitT /\ [][NextT]_vars

-----------------------------------------------------------------------------
(* Properties *)

\* the closing brace that balances the opening brace at b: the first position
\* after b at which s[b..q] holds as many "}" as "{"; 0 when there is none
BalancedClose(s, b) ==
    LET S == {q \in (b + 1)..Len(s) :
                /\ s[q] = "}"
                /\ Cardinality({k \in b..q : s[k] = "{"})
                     = Cardinality({k \in b..q : s[k] = "}"})}
    IN  IF S = {} THEN 0 ELSE MinOf(S)

BlockPatterns == {"process_frame", "get_config", "apply_config"}

\* the position of the body's opening brace of the block whose signature
\* starts at i
BlockOpen(pat, s, i) ==
    CASE pat = "process_frame" -> SkipWs(s, FirstIdx(s, i + 2, ")") + 1)
      [] pat = "get_config" -> SkipWs(s, i + 3)
      [] pat = "apply_config" -> SkipWs(s, i + 4)

\* lit at position t lies inside the body of a GetConfiguration or
\* ApplyConfiguration method of s
InRemovedBlock(s, t, lit) ==
    \E pat \in {"get_config", "apply_config"} : \E i \in 1..Len(s) :
        /\ MatchEnd(pat, s, i) # 0
        /\ BlockOpen(pat, s, i) < t
        /\ t + Len(lit) - 1 < BalancedClose(s, BlockOpen(pat, s, i))

\* x is in the issues list
Reported(x) == \E k \in 1..Len(issues) : issues[k] = x

\* the text the path held before the tool first wrote to it
OriginalOf(p) ==
    LET S == {k \in 1..Len(wlog) : wlog[k].path = p}
    IN  IF S = {} THEN disk[p] ELSE wlog[MinOf(S)].pre

\* C1: every write to a source file, by any of the fixers, comes after a backup
\* that holds the text the file had on disk before the write.
C1_BackupBeforeEveryWrite == \A k \in 1..Len(wlog) : wlog[k].backed

\* C2: fix_effect_file_improved backs a file up, writes it and returns True only
\* if one of its rewrite rules fired on the text; a text that differs from its
\* canonical form by trailing whitespace alone is left as it is.
C2_WriteOnlyIfRuleFired ==
    script = "effect" =>
        /\ \A k \in 1..Len(wlog) : wlog[k].fired
        /\ pc \in {"backup", "write", "verify", "verified"} => changes_made

\* C3: a fixer applied to its own output fires no rule and leaves the text as
\* it is.
C3_Idempotent == runs >= 2 => (content = original_content /\ ~changes_made)

\* C4: no exception raised while one file is processed leaves main; the batch
\* goes on with the next path.
C4_NoExceptionLeavesMain == pc # "raised"

\* C5: in fix_effect_file_improved the candidate content is on disk when
\* verify_file_structure runs, and whatever issues the verifier reports, the
\* written content stays on disk and the function returns True.
C5_VerifierNonBlocking ==
    /\ pc = "verify" =>
         /\ disk[Cur] = content
         /\ content # original_content
         /\ Len(wlog) > 0
         /\ wlog[Len(wlog)].path = Cur
         /\ wlog[Len(wlog)].post = content
    /\ pc = "verified" =>
         /\ disk[Cur] = content
         /\ content # original_content
         /\ ret = "True"

\* C5, its case: the verifier has reported issues for a file that was rewritten
C5_Witness ==
    /\ pc = "verified"
    /\ issues # <<>>
    /\ disk[Cur] = content
    /\ content # original_content

\* C6: when every 'Canvas = canvas' of the text lies inside the body of a
\* GetConfiguration or ApplyConfiguration method, the text after the block
\* rules holds no 'Canvas = canvas'.
C6_NoTokenLeftFromRemovedBlock ==
    ( /\ script = "effect"
      /\ runs = 1
      /\ Contains(original_content, CanvasEqCanvas)
      /\ \A t \in 1..Len(original_content) :
           LitAt(original_content, t, CanvasEqCanvas)
               => InRemovedBlock(original_content, t, CanvasEqCanvas) )
    => ~Contains(content, CanvasEqCanvas)

\* C7 as stated: after one pass of the canvas fixer over a text without the
\* adapter, none of the three pattern texts occurs in the output.
C7_NoPatternRemains ==
    (script = "canvas" /\ runs = 1 /\ ~Contains(original_content, SkiaCanvasAdapter))
    => \A k \in 1..Len(patterns) : ~Contains(content, patterns[k][1])

\* C7 amended: after one pass of the canvas fixer over a text without the
\* adapter, the first pattern of the list that occurs in the text occurs nowhere
\* in the output; the patterns after it are not applied (the loop breaks), so
\* their occurrences may remain.
C7_FirstPatternReplacedEverywhere ==
    (script = "canvas" /\ runs = 1 /\ ~Contains(original_content, SkiaCanvasAdapter))
    => \A k \in 1..Len(patterns) :
         ( /\ Contains(original_content, patterns[k][1])
           /\ \A j \in 1..(k - 1) : ~Contains(original_content, patterns[j][1]) )
         => ~Contains(content, patterns[k][1])

\* C7, its case: a text with two occurrences of the pattern has been rewritten
C7_Witness ==
    /\ script = "canvas"
    /\ runs = 1
    /\ ~Contains(original_content, SkiaCanvasAdapter)
    /\ Count(original_content, CanvasEqCanvas) = 2
    /\ Count(content, patterns[1][2]) = 2
    /\ ~Contains(content, CanvasEqCanvas)

\* an open-marker followed only by blank lines and then a close-marker
EmptyBlock(s) ==
    \E i \in 1..Len(s) :
        /\ LitAt(s, i, RegionConfiguration)
        /\ SkipWs(s, i + 3) <= Len(s)
        /\ s[SkipWs(s, i + 3)] = ENDREGION
        /\ \A k \in (i + 3)..(SkipWs(s, i + 3) - 1) : s[k] = NL
        /\ SkipWs(s, i + 3) > i + 3

\* C8 as stated: the verifier reports the empty-block issue exactly when the
\* text holds an open-marker followed only by blank lines and a close-marker.
C8_EmptyBlockReported ==
    pc = "checked" => (Reported(INCOMPLETE) <=> EmptyBlock(content))

\* the three checks of the verifier, stated on the text itself
RegionsDiffer ==
    Cardinality({k \in 1..Len(content) : content[k] = REGION})
        # Cardinality({k \in 1..Len(content) : content[k] = ENDREGION})

FourLineBreakBlock ==
    \E i \in 1..Len(content) :
        /\ i + 7 <= Len(content)
        /\ content[i] = REGION /\ content[i + 1] = SP /\ content[i + 2] = CONFIGURATION
        /\ \A k \in 3..6 : content[i + k] = NL
        /\ content[i + 7] = ENDREGION

NoClosingBrace ==
    ~\E j \in 1..Len(content) :
        /\ content[j] = "}"
        /\ \A m \in (j + 1)..Len(content) : IsWs(content[m])

\* C8 amended: the report lists, in this order and without short-circuit, the
\* region-balance issue iff the counts of '#region' and '#endregion' differ, the
\* incomplete-region issue iff the text holds the literal '#region Configuration'
\* followed by exactly four line breaks and '#endregion', and the termination
\* issue iff the text, trailing whitespace ignored, does not end with '}'; it is
\* empty iff none of the three fails.
C8_ReportIsExact ==
    pc = "checked" =>
        issues = (IF RegionsDiffer THEN <<UNMATCHED>> ELSE <<>>)
                 \o (IF FourLineBreakBlock THEN <<INCOMPLETE>> ELSE <<>>)
                 \o (IF NoClosingBrace THEN <<NO_BRACE>> ELSE <<>>)

\* C8, its case: the verifier has reported the incomplete region together with
\* another issue
C8_Witness ==
    /\ pc = "checked"
    /\ Reported(INCOMPLETE)
    /\ Len(issues) >= 2
    /\ FourLineBreakBlock

\* C9: the span a block rule matches ends at the closing brace that balances
\* the body's opening brace.
C9_SpanEndsAtBalancedClose ==
    (script = "effect" /\ runs = 1) =>
        \A pat \in BlockPatterns : \A i \in 1..Len(original_content) :
            MatchEnd(pat, original_content, i) # 0
                => MatchEnd(pat, original_content, i)
                     = BalancedClose(original_content, BlockOpen(pat, original_content, i))

\* C10: after any runs of fix_effect_file_improved whose writes all succeeded,
\* the .backup file of a path holds the text the path had before the tool
\* first wrote to it.
C10_BackupKeepsOriginal ==
    (script = "effect" /\ \A k \in 1..Len(wlog) : wlog[k].whole)
    => \A p \in hasBackup : backupOf[p] = OriginalOf(p)

=============================================================================
